---- MODULE Spec2Model ----
\* A model of ghtimecardator (src/ghtimecardator.go): the date helper pickDate,
\* the ledger `work` with handleEvent, and main's ingest / report pipeline.
EXTENDS Integers, Sequences, FiniteSets, TLC

VARIABLES
    pc,          \* position of main: see the actions below
    env,         \* TRUE when GITHUB_USER, GITHUB_TOKEN and OPENAI_TOKEN are set
    args,        \* flag.Args()
    wantedRepo,  \* main's wantedRepo
    now,         \* the instant time.Now() reads inside pickDate
    beginDate,   \* main's beginDate
    work,        \* the ledger: [issues, pulls, actions, user]
    page,        \* opt.Page
    pageLen,     \* len(ghEvents) of the page being ranged over
    idx,         \* index of the range loop over ghEvents
    nextPage,    \* resp.NextPage of the page being ranged over
    fetched,     \* number of event pages requested so far
    net,         \* kinds of network activity that have happened so far
    todo,        \* keys the current report loop has not visited yet
    report,      \* the report built so far, one entry per work item
    lastReq,     \* the last request work.actionSummary built
    timecard,    \* the arguments of the final timecardSummary call
    fed,         \* history: the events handed to handleEvent, in order
    sawOld,      \* history: an event created before beginDate was observed
    allBefore    \* history: every event observed so far was created before now

vars == <<pc, env, args, wantedRepo, now, beginDate, work, page, pageLen, idx,
          nextPage, fetched, net, todo, report, lastReq, timecard, fed, sawOld,
          allBefore>>

----------------------------------------------------------------------------
\* Bounds of the model.

TicksPerDay == 3       \* clock readings per local day (tick 0 is midnight)
NowDay0 == 85          \* first day of the window of reference days
NowDays == 14          \* length of the window of reference days
MaxPages == 2          \* event pages the source serves
MaxPerPage == 2        \* events on one page
MaxFed == 2            \* events of the source that pass the cutoff and the filter
MaxLedgerFed == 3      \* events handed to handleEvent when it is driven directly

----------------------------------------------------------------------------
\* Local calendar. Day 0 is 2023-01-01, a Sunday; an instant is a number of
\* ticks since midnight of day 0. Weekdays are numbered as Go's time.Weekday.

Sunday == 0
Monday == 1

IsLeap(y) == (y % 4 = 0 /\ y % 100 # 0) \/ y % 400 = 0

DaysInMonth(y, m) ==
    IF m = 2 THEN (IF IsLeap(y) THEN 29 ELSE 28)
    ELSE IF m \in {4, 6, 9, 11} THEN 30 ELSE 31

DaysInYear(y) == IF IsLeap(y) THEN 366 ELSE 365

RECURSIVE DaysBeforeMonth(_, _)
DaysBeforeMonth(y, m) ==
    IF m = 1 THEN 0 ELSE DaysBeforeMonth(y, m - 1) + DaysInMonth(y, m - 1)

RECURSIVE DaysBeforeYear(_)
DaysBeforeYear(y) ==
    IF y = 2023 THEN 0
    ELSE IF y > 2023 THEN DaysBeforeYear(y - 1) + DaysInYear(y - 1)
    ELSE DaysBeforeYear(y + 1) - DaysInYear(y)

DayOf(t) == t \div TicksPerDay
TickOf(t) == t % TicksPerDay
Weekday(t) == DayOf(t) % 7

RECURSIVE YearOfDay(_, _)
YearOfDay(d, y) ==
    IF d >= DaysBeforeYear(y + 1) THEN YearOfDay(d, y + 1) ELSE y

RECURSIVE MonthOfDay(_, _, _)
MonthOfDay(d, y, m) ==
    IF d >= DaysBeforeYear(y) + DaysBeforeMonth(y, m) + DaysInMonth(y, m)
    THEN MonthOfDay(d, y, m + 1) ELSE m

Year(t) == YearOfDay(DayOf(t), 2023)
Month(t) == MonthOfDay(DayOf(t), Year(t), 1)
Day(t) == DayOf(t) - DaysBeforeYear(Year(t)) - DaysBeforeMonth(Year(t), Month(t)) + 1

\* time.Date(y, m, d, ...) with its normalisation of months outside 1..12 and
\* of days outside the month; tick is the time of day.
Date(y, m, d, tick) ==
    LET m0 == m - 1
        yy == y + (IF m0 >= 0 THEN m0 \div 12 ELSE -((11 - m0) \div 12))
        mm == (IF m0 >= 0 THEN m0 % 12 ELSE 11 - ((-m0 - 1) % 12)) + 1
    IN  (DaysBeforeYear(yy) + DaysBeforeMonth(yy, mm) + (d - 1)) * TicksPerDay + tick

\* Time.AddDate: the same wall-clock reading on the shifted calendar date.
AddDate(t, years, months, days) ==
    Date(Year(t) + years, Month(t) + months, Day(t) + days, TickOf(t))

Before(t, u) == t < u

----------------------------------------------------------------------------
\* pickDate (src/ghtimecardator.go:431-465); n is the reading of time.Now().

Keywords ==
    {"today", "yesterday", "last-3days", "this-week", "last-week",
     "this-month", "last-month"}

thisWeekOffset(today) ==
    LET offset == Weekday(today) - Monday
    IN  IF offset < 0 THEN offset + 7 ELSE offset

lastWeekOffset(today) == Weekday(today) + 6

\* today with the time of day dropped: midnight of the current day.
pickTodayMidnight(n) == Date(Year(n), Month(n), Day(n), 0)

\* Case "today" (lines 435-436): the clock reading itself.
pickToday(n) == n

pickDate(arg, n) ==
    CASE arg = "today"      -> [t |-> pickToday(n), err |-> FALSE]
      [] arg = "yesterday"  -> [t |-> AddDate(n, 0, 0, -1), err |-> FALSE]
      [] arg = "last-3days" -> [t |-> AddDate(n, 0, 0, -3), err |-> FALSE]
      [] arg = "this-week"  ->
            [t |-> AddDate(n, 0, 0, -thisWeekOffset(n)), err |-> FALSE]
      [] arg = "last-week"  ->
            [t |-> AddDate(n, 0, 0, -lastWeekOffset(n)), err |-> FALSE]
      [] arg = "this-month" -> [t |-> Date(Year(n), Month(n), 1, 0), err |-> FALSE]
      [] arg = "last-month" ->
            [t |-> AddDate(Date(Year(n), Month(n), 1, 0), 0, -1, 0), err |-> FALSE]
      [] OTHER              -> [t |-> n, err |-> TRUE]

----------------------------------------------------------------------------
\* Events as go-github decodes them. obj is the issue or pull request the
\* payload carries; a payload that failed to decode may carry none, and the
\* nil-safe getters then read zero values.

NoObj ==
    [present |-> FALSE, number |-> 0, isPR |-> FALSE, merged |-> FALSE,
     url |-> "", title |-> "", login |-> ""]

Issue(n, pr, u, t, l) ==
    [present |-> TRUE, number |-> n, isPR |-> pr, merged |-> FALSE,
     url |-> u, title |-> t, login |-> l]

Pull(n, mg, u, t, l) ==
    [present |-> TRUE, number |-> n, isPR |-> TRUE, merged |-> mg,
     url |-> u, title |-> t, login |-> l]

Event(ty, perr, act, o) ==
    [type |-> ty, parseErr |-> perr, action |-> act, obj |-> o]

Logins == {"me", "peer"}

Events ==
    { Event("IssuesEvent", FALSE, "opened", Issue(1, FALSE, "u/issues/1", "bug", "me")),
      Event("IssuesEvent", FALSE, "closed", Issue(2, TRUE, "u/pull/2", "fix", "peer")),
      Event("IssueCommentEvent", FALSE, "created", Issue(1, FALSE, "u/issues/1", "bug (edited)", "peer")),
      Event("PullRequestEvent", FALSE, "opened", Pull(2, FALSE, "u/pull/2", "fix", "me")),
      Event("PullRequestEvent", FALSE, "closed", Pull(1, TRUE, "v/pull/1", "feat", "peer")),
      Event("PullRequestEvent", FALSE, "closed", Pull(2, FALSE, "u/pull/2", "fix (edited)", "peer")),
      Event("PullRequestReviewEvent", FALSE, "created", Pull(1, FALSE, "v/pull/1", "feat", "me")),
      Event("PullRequestReviewCommentEvent", FALSE, "created", Pull(2, FALSE, "u/pull/2", "fix", "peer")),
      Event("PushEvent", FALSE, "", NoObj),
      Event("GollumEvent", TRUE, "", NoObj),
      Event("PullRequestEvent", TRUE, "closed", NoObj),
      Event("PullRequestReviewEvent", TRUE, "created", Pull(1, FALSE, "", "feat", "")),
      Event("IssuesEvent", TRUE, "opened", NoObj) }

\* The events the event source of main serves in the model.
MainEvents ==
    { Event("IssuesEvent", FALSE, "opened", Issue(1, FALSE, "u/issues/1", "bug", "me")),
      Event("PullRequestEvent", FALSE, "closed", Pull(1, TRUE, "v/pull/1", "feat", "peer")),
      Event("PushEvent", FALSE, "", NoObj),
      Event("PullRequestEvent", TRUE, "closed", NoObj),
      Event("IssuesEvent", TRUE, "opened", NoObj) }

Repos == {"owner/repo", "peer/other"}

\* What the Summarizer may answer: executeAI returns "" when the call fails.
Replies == {"", "summary"}

----------------------------------------------------------------------------
\* The ledger (type work) and its methods.

ObjectIssue == "issue"
ObjectIssueComment == "issue comment"
ObjectPR == "pull request"
ObjectPRComment == "pull request comment"

NewWork(login) == [issues |-> <<>>, pulls |-> <<>>, actions |-> <<>>, user |-> login]

\* metadata{...} as addIssue and addPullRequest build it; desc is what
\* descriptionSummary(body) returned.
NewMetadata(w, o, desc) ==
    [eventId |-> o.number, url |-> o.url, title |-> o.title,
     description |-> desc, author |-> (o.login = w.user)]

addIssue(w, issue, desc) ==
    IF issue.isPR
    THEN IF issue.number \in DOMAIN w.pulls THEN w
         ELSE [w EXCEPT !.pulls = (issue.number :> NewMetadata(w, issue, desc)) @@ @]
    ELSE IF issue.number \in DOMAIN w.issues THEN w
         ELSE [w EXCEPT !.issues = (issue.number :> NewMetadata(w, issue, desc)) @@ @]

\* addPullRequest without its check of the key: a later event overwrites.
addPullRequestOverwrite(w, pr, desc) ==
    [w EXCEPT !.pulls = (pr.number :> NewMetadata(w, pr, desc)) @@ @]

addPullRequest(w, pr, desc) ==
    IF pr.number \in DOMAIN w.pulls THEN w
    ELSE [w EXCEPT !.pulls = (pr.number :> NewMetadata(w, pr, desc)) @@ @]

getAction(w, id) == IF id \in DOMAIN w.actions THEN w.actions[id] ELSE <<>>

addAction(w, id, a) ==
    [w EXCEPT !.actions = (id :> Append(getAction(w, id), a)) @@ @]

getIssueOrPR(w, id) ==
    IF id \in DOMAIN w.issues THEN <<w.issues[id]>>
    ELSE IF id \in DOMAIN w.pulls THEN <<w.pulls[id]>>
    ELSE <<>>

\* The instruction work.actionSummary builds for id (it dereferences the
\* result of getIssueOrPR, which is there for every key of issues and pulls).
actionSummary(w, id) ==
    LET meta == getIssueOrPR(w, id)[1]
    IN  [eventId |-> meta.eventId, url |-> meta.url, title |-> meta.title,
         author |-> meta.author, description |-> meta.description,
         count |-> Len(getAction(w, id)), actions |-> getAction(w, id)]

----------------------------------------------------------------------------
\* handleEvent. ParsePayload picks the payload's Go type from the event's type
\* string and hands back that typed payload with the decoding error, which
\* handleEvent prints; the type switch then runs on the payload all the same.

IssueKinds == {"IssuesEvent", "IssueCommentEvent"}
PullKinds ==
    {"PullRequestEvent", "PullRequestReviewEvent", "PullRequestReviewCommentEvent"}

\* realAction without the look at the merged flag.
realActionVerbatim(e) == e.action

realAction(e) ==
    IF e.action = "closed"
    THEN (IF e.obj.merged THEN "merged" ELSE "closed")
    ELSE e.action

ObjectOf(e) ==
    CASE e.type = "IssuesEvent" -> ObjectIssue
      [] e.type = "IssueCommentEvent" -> ObjectIssueComment
      [] e.type = "PullRequestEvent" -> ObjectPR
      [] OTHER -> ObjectPRComment

\* Issue.IsPullRequest has a value receiver: addIssue on a nil *Issue panics.
handleEventPanics(e) == e.type \in IssueKinds /\ ~e.obj.present

\* desc: the answer to addIssue's / addPullRequest's descriptionSummary call
\* (made only for a new key); content: the answer to the action's.
handleEvent(w, e, desc, content) ==
    CASE e.type \in IssueKinds ->
            addAction(addIssue(w, e.obj, desc), e.obj.number,
                      [action |-> e.action, object |-> ObjectOf(e), content |-> content])
      [] e.type = "PullRequestEvent" ->
            addAction(addPullRequest(w, e.obj, desc), e.obj.number,
                      [action |-> realAction(e), object |-> ObjectOf(e), content |-> content])
      [] e.type \in PullKinds \ {"PullRequestEvent"} ->
            addAction(addPullRequest(w, e.obj, desc), e.obj.number,
                      [action |-> e.action, object |-> ObjectOf(e), content |-> content])
      [] OTHER -> w

\* Whether handleEvent(w, e, ...) calls the Summarizer at all.
handleEventSummarizes(e) == e.type \in IssueKinds \cup PullKinds

----------------------------------------------------------------------------
\* main.

SummaryTypes == {"executive", "technical", "detailed"}

\* strings.ToLower and strings.Contains(s, "/") on the owner/repo arguments
\* of the model.
ToLower(s) ==
    CASE s = "Owner/Repo" -> "owner/repo"
      [] s = "NoSlash" -> "noslash"
      [] OTHER -> s

ContainsSlash(s) == s \in {"Owner/Repo", "owner/repo", "peer/other"}

\* The command lines of the model.
MainKeywords == {"today", "last-week"}
BadKeywords == {"", "tomorrow", "This-Week", "last-3-days"}

ArgLists ==
    {<<k, "executive", "">> : k \in Keywords}
    \cup {<<k, "technical", "Owner/Repo">> : k \in MainKeywords}
    \cup {<<k, "detailed", "owner/repo">> : k \in BadKeywords}
    \cup { <<"today">>, <<"today", "technical">>, <<"today", "verbose", "owner/repo">>,
           <<"today", "technical", "NoSlash">>, <<"tomorrow", "verbose", "owner/repo">> }

\* The clock readings of the model: the days of the window, every tick.
Nows == {d * TicksPerDay + k : d \in NowDay0 .. NowDay0 + NowDays - 1, k \in 0 .. TicksPerDay - 1}
MainNows == {(NowDay0 + 6) * TicksPerDay + 1}

\* Creation timestamps of the events of the model.
EventTimes == {0, now - 1, now}

Init ==
    /\ pc = "start"
    /\ env \in BOOLEAN
    /\ args \in ArgLists
    /\ now \in MainNows
    /\ wantedRepo = ""
    /\ beginDate = 0
    /\ work = NewWork("")
    /\ page = 0
    /\ pageLen = 0
    /\ idx = 0
    /\ nextPage = 0
    /\ fetched = 0
    /\ net = {}
    /\ todo = {}
    /\ report = <<>>
    /\ lastReq = <<>>
    /\ timecard = <<>>
    /\ fed = <<>>
    /\ sawOld = FALSE
    /\ allBefore = TRUE

\* Lines 165-200: the environment and the arguments. args[2] is read without
\* a check of len(args), so two arguments end in an index-out-of-range panic.
ParseArgs ==
    /\ pc = "start"
    /\ pc' = IF ~env \/ Len(args) < 2 THEN "exit1"
             ELSE IF args[2] \notin SummaryTypes THEN "exit1"
             ELSE IF Len(args) < 3 THEN "panic"
             ELSE IF args[3] # "" /\ ~ContainsSlash(ToLower(args[3])) THEN "exit1"
             ELSE "pickDate"
    /\ wantedRepo' = IF env /\ Len(args) >= 3 /\ args[2] \in SummaryTypes
                     THEN ToLower(args[3]) ELSE wantedRepo
    /\ UNCHANGED <<env, args, now, beginDate, work, page, pageLen, idx, nextPage,
                   fetched, net, todo, report, lastReq, timecard, fed, sawOld,
                   allBefore>>

\* main with pickDate's error dropped: the run goes on to the clients.
PickDateErrDropped ==
    /\ pc = "pickDate"
    /\ pc' = "getUser"
    /\ beginDate' = pickDate(args[1], now).t
    /\ UNCHANGED <<env, args, wantedRepo, now, work, page, pageLen, idx, nextPage,
                   fetched, net, todo, report, lastReq, timecard, fed, sawOld,
                   allBefore>>

\* Lines 202-226: pickDate, then the clients (built without a request).
PickDate ==
    /\ pc = "pickDate"
    /\ LET r == pickDate(args[1], now)
       IN  IF r.err
           THEN pc' = "exit1" /\ UNCHANGED beginDate
           ELSE pc' = "getUser" /\ beginDate' = r.t
    /\ UNCHANGED <<env, args, wantedRepo, now, work, page, pageLen, idx, nextPage,
                   fetched, net, todo, report, lastReq, timecard, fed, sawOld,
                   allBefore>>

\* Lines 228-241: the identity lookup and the empty ledger.
GetUser ==
    /\ pc = "getUser"
    /\ net' = net \cup {"identity"}
    /\ \E ok \in BOOLEAN :
          IF ok THEN pc' = "fetch" /\ work' = NewWork("me")
                ELSE pc' = "returned" /\ UNCHANGED work
    /\ UNCHANGED <<env, args, wantedRepo, now, beginDate, page, pageLen, idx, nextPage,
                   fetched, todo, report, lastReq, timecard, fed, sawOld,
                   allBefore>>

\* Line 251: one page of events. The page's events are read off in Range*.
FetchPage ==
    /\ pc = "fetch"
    /\ net' = net \cup {"events"}
    /\ fetched' = fetched + 1
    /\ \E ok \in BOOLEAN :
          IF ok
          THEN /\ pc' = "events"
               /\ pageLen' \in 0 .. MaxPerPage
               /\ nextPage' \in {0} \cup (IF fetched + 1 < MaxPages THEN {fetched + 2} ELSE {})
               /\ idx' = 0
          ELSE pc' = "returned" /\ UNCHANGED <<pageLen, nextPage, idx>>
    /\ UNCHANGED <<env, args, wantedRepo, now, beginDate, work, page,
                   todo, report, lastReq, timecard, fed, sawOld,
                   allBefore>>

\* Lines 269-273, reached when the range loop over the page ends or breaks.
\* ghEvents, resp and the loop index go out of scope when the for loop is left.
AfterRange ==
    IF nextPage = 0
    THEN /\ pc' = "issues" /\ todo' = DOMAIN work.issues
         /\ page' = (IF fetched = 1 THEN 0 ELSE 1)   \* resp.FirstPage
         /\ pageLen' = 0 /\ idx' = 0 /\ nextPage' = 0
    ELSE /\ pc' = "fetch" /\ page' = nextPage
         /\ UNCHANGED <<todo, pageLen, idx, nextPage>>

\* Lines 257-260: an event created before beginDate breaks the range loop.
RangeBreak ==
    /\ pc = "events" /\ idx < pageLen
    /\ \E t \in EventTimes :
          Before(t, beginDate) /\ allBefore' = (allBefore /\ Before(t, now))
    /\ sawOld' = TRUE
    /\ AfterRange
    /\ UNCHANGED <<env, args, wantedRepo, now, beginDate, work,
                   fetched, net, report, lastReq, timecard, fed>>

\* Lines 261-264: an event of another repository is passed over.
RangeSkip ==
    /\ pc = "events" /\ idx < pageLen
    /\ \E t \in EventTimes, r \in Repos :
          /\ ~Before(t, beginDate) /\ wantedRepo # "" /\ r # wantedRepo
          /\ allBefore' = (allBefore /\ Before(t, now))
    /\ idx' = idx + 1
    /\ UNCHANGED <<pc, env, args, wantedRepo, now, beginDate, work, page, pageLen, nextPage,
                   fetched, net, todo, report, lastReq, timecard, fed, sawOld>>

\* A call handleEvent(work, e) with the Summarizer's answers, and its record
\* in the history.
Handle(e, desc, content) ==
    /\ fed' = Append(fed, [e |-> e, content |-> content])
    /\ IF handleEventPanics(e)
       THEN pc' = "panic" /\ UNCHANGED <<work, net>>
       ELSE /\ work' = handleEvent(work, e, desc, content)
            /\ net' = IF handleEventSummarizes(e) THEN net \cup {"summarizer"} ELSE net
            /\ UNCHANGED pc

\* Line 266: the event goes to handleEvent.
RangeHandle ==
    /\ pc = "events" /\ idx < pageLen /\ Len(fed) < MaxFed
    /\ \E t \in EventTimes, r \in Repos :
          /\ ~Before(t, beginDate) /\ ~(wantedRepo # "" /\ r # wantedRepo)
          /\ allBefore' = (allBefore /\ Before(t, now))
    /\ \E e \in MainEvents, desc \in Replies, content \in Replies :
          /\ Handle(e, desc, content)
          /\ idx' = IF handleEventPanics(e) THEN idx ELSE idx + 1
    /\ UNCHANGED <<env, args, wantedRepo, now, beginDate, page, pageLen, nextPage,
                   fetched, todo, report, lastReq, timecard, sawOld>>

\* The range loop has visited the whole page.
RangeEnd ==
    /\ pc = "events" /\ idx = pageLen
    /\ AfterRange
    /\ UNCHANGED <<env, args, wantedRepo, now, beginDate, work,
                   fetched, net, report, lastReq, timecard, fed, sawOld,
                   allBefore>>

\* Lines 284-289: one iteration over work.issues (Go ranges a map in any order).
ReportIssue ==
    /\ pc = "issues" /\ todo # {}
    /\ \E k \in todo, result \in Replies :
          LET issue == work.issues[k]
          IN  /\ lastReq' = <<[from |-> "issues", entry |-> issue,
                              instr |-> actionSummary(work, issue.eventId)]>>
              /\ report' = Append(report, [kind |-> "Issue", eventId |-> issue.eventId,
                                           url |-> issue.url, title |-> issue.title,
                                           result |-> result])
              /\ todo' = todo \ {k}
    /\ net' = net \cup {"summarizer"}
    /\ UNCHANGED <<pc, env, args, wantedRepo, now, beginDate, work, page, pageLen, idx,
                   nextPage, fetched, timecard, fed, sawOld,
                   allBefore>>

ReportIssuesEnd ==
    /\ pc = "issues" /\ todo = {}
    /\ pc' = "pulls"
    /\ todo' = DOMAIN work.pulls
    /\ UNCHANGED <<env, args, wantedRepo, now, beginDate, work, page, pageLen, idx,
                   nextPage, fetched, net, report, lastReq, timecard, fed, sawOld,
                   allBefore>>

\* Lines 295-300: one iteration over work.pulls.
ReportPull ==
    /\ pc = "pulls" /\ todo # {}
    /\ \E k \in todo, result \in Replies :
          LET pull == work.pulls[k]
          IN  /\ lastReq' = <<[from |-> "pulls", entry |-> pull,
                              instr |-> actionSummary(work, pull.eventId)]>>
              /\ report' = Append(report, [kind |-> "PR", eventId |-> pull.eventId,
                                           url |-> pull.url, title |-> pull.title,
                                           result |-> result])
              /\ todo' = todo \ {k}
    /\ net' = net \cup {"summarizer"}
    /\ UNCHANGED <<pc, env, args, wantedRepo, now, beginDate, work, page, pageLen, idx,
                   nextPage, fetched, timecard, fed, sawOld,
                   allBefore>>

\* timecardSummary's role for a summary type (lines 389-399).
timecardRole(summaryType) ==
    CASE summaryType = "executive" -> <<"timecard", "executive">>
      [] summaryType = "technical" -> <<"timecard", "technical">>
      [] summaryType = "detailed" -> <<"timecard", "executive", "technical">>
      [] OTHER -> <<"timecard">>

\* Line 304: the final timecardSummary call.
Timecard ==
    /\ pc = "pulls" /\ todo = {}
    /\ pc' = "done"
    /\ timecard' = <<[role |-> timecardRole(args[2]), report |-> report]>>
    /\ net' = net \cup {"summarizer"}
    /\ UNCHANGED <<env, args, wantedRepo, now, beginDate, work, page, pageLen, idx,
                   nextPage, fetched, todo, report, lastReq, fed, sawOld,
                   allBefore>>

Next ==
    \/ ParseArgs
    \/ PickDate
    \/ GetUser
    \/ FetchPage
    \/ RangeBreak
    \/ RangeSkip
    \/ RangeHandle
    \/ RangeEnd
    \/ ReportIssue
    \/ ReportIssuesEnd
    \/ ReportPull
    \/ Timecard

Spec == Init /\ [][Next]_vars

----------------------------------------------------------------------------
\* handleEvent driven directly: any events, in any order, on a new ledger.

InitLedger ==
    /\ pc = "ledger"
    /\ env = TRUE
    /\ args = <<"today", "executive", "">>
    /\ now \in MainNows
    /\ wantedRepo = ""
    /\ beginDate = now
    /\ work = NewWork("me")
    /\ page = 0
    /\ pageLen = 0
    /\ idx = 0
    /\ nextPage = 0
    /\ fetched = 0
    /\ net = {"identity"}
    /\ todo = {}
    /\ report = <<>>
    /\ lastReq = <<>>
    /\ timecard = <<>>
    /\ fed = <<>>
    /\ sawOld = FALSE
    /\ allBefore = TRUE

LedgerHandle ==
    /\ pc = "ledger" /\ Len(fed) < MaxLedgerFed
    /\ \E e \in Events, desc \in Replies, content \in Replies : Handle(e, desc, content)
    /\ UNCHANGED <<env, args, wantedRepo, now, beginDate, page, pageLen, idx, nextPage,
                   fetched, todo, report, lastReq, timecard, sawOld,
                   allBefore>>

NextLedger == LedgerHandle

SpecLedger == InitLedger /\ [][NextLedger]_vars

----------------------------------------------------------------------------
\* pickDate alone: every keyword at every clock reading of the window.

InitDate ==
    /\ pc = "pickDate"
    /\ env = TRUE
    /\ args \in {<<k, "executive", "owner/repo">> : k \in Keywords \cup BadKeywords}
    /\ now \in Nows
    /\ wantedRepo = "owner/repo"
    /\ beginDate = 0
    /\ work = NewWork("")
    /\ page = 0
    /\ pageLen = 0
    /\ idx = 0
    /\ nextPage = 0
    /\ fetched = 0
    /\ net = {}
    /\ todo = {}
    /\ report = <<>>
    /\ lastReq = <<>>
    /\ timecard = <<>>
    /\ fed = <<>>
    /\ sawOld = FALSE
    /\ allBefore = TRUE

NextDate == PickDate

SpecDate == InitDate /\ [][NextDate]_vars

----------------------------------------------------------------------------
\* Properties.

Last(q) == q[Len(q)]
CheckIds == 0 .. 2

\* An event the specification calls Ignored: one of no recognised kind, or
\* one whose payload failed to parse.
Ignored(e) == e.parseErr \/ e.type \notin IssueKinds \cup PullKinds

\* C1: every work-item id is a key of at most one of the maps issues and pulls.
C1_AtMostOneMap == DOMAIN work.issues \cap DOMAIN work.pulls = {}

\* C2: once an event created before beginDate has been observed, no event is
\* handed to handleEvent and no page is requested any more.
C2_StopsAtCutoff == [][sawOld => (fed' = fed /\ fetched' = fetched)]_vars

\* C3: the begin-instant of this-week is a Monday, at midnight, not after now.
C3_ThisWeekMondayMidnight ==
    (pc = "getUser" /\ args[1] = "this-week") =>
        /\ Weekday(beginDate) = Monday
        /\ TickOf(beginDate) = 0
        /\ beginDate <= now

\* C4: the begin-instant of last-week is exactly 7 days before the one
\* this-week resolves to at the same clock reading.
C4_LastWeekSevenDaysEarlier ==
    (pc = "getUser" /\ args[1] = "last-week") =>
        beginDate = pickDate("this-week", now).t - 7 * TicksPerDay

\* C5: a record stored in issues or pulls is never changed or removed by a
\* later event (url, title, description and author stay as first written).
C5_FirstWriteWins ==
    [][ /\ \A i \in DOMAIN work.issues :
              i \in DOMAIN work'.issues /\ work'.issues[i] = work.issues[i]
        /\ \A i \in DOMAIN work.pulls :
              i \in DOMAIN work'.pulls /\ work'.pulls[i] = work.pulls[i] ]_vars

\* C5 witness: a record of pulls is stored, and a later event that carries
\* the same number with another title, url or author has been handled.
C5_Witness ==
    /\ pc = "ledger"
    /\ \E i \in 1 .. Len(fed), j \in 1 .. Len(fed) :
          /\ i < j
          /\ fed[i].e.type \in PullKinds /\ fed[j].e.type \in PullKinds
          /\ fed[i].e.obj.number = fed[j].e.obj.number
          /\ fed[i].e.obj.title # fed[j].e.obj.title
          /\ fed[i].e.obj.login # fed[j].e.obj.login
          /\ \A k \in 1 .. i - 1 : fed[k].e.obj.number # fed[i].e.obj.number
          /\ work.pulls[fed[i].e.obj.number].title = fed[i].e.obj.title

\* The verb the specification's dispatch table gives an event.
TableVerb(e) ==
    IF e.type = "PullRequestEvent" /\ e.action = "closed"
    THEN (IF e.obj.merged THEN "merged" ELSE "closed")
    ELSE e.action

Classified(id) == SelectSeq(fed, LAMBDA x : ~Ignored(x.e) /\ x.e.obj.number = id)

ExpectedActions(id) ==
    [k \in 1 .. Len(Classified(id)) |->
        [action |-> TableVerb(Classified(id)[k].e),
         object |-> ObjectOf(Classified(id)[k].e),
         content |-> Classified(id)[k].content]]

\* C6: actions[id] holds one entry per non-ignored event that referenced id,
\* none for an ignored event, in the order the events were fed.
C6_ActionsFollowFeed ==
    \A id \in CheckIds : getAction(work, id) = ExpectedActions(id)

\* C7: with a valid summary type and an owner/repo argument, an unrecognised
\* date keyword ends the run in the error exit, and no network activity
\* (identity lookup, page fetch, Summarizer call) has happened.
C7_BadKeywordBeforeNetwork ==
    (Len(args) = 3 /\ args[2] \in SummaryTypes /\ args[1] \notin Keywords) =>
        /\ net = {}
        /\ fetched = 0
        /\ pc \in {"start", "pickDate", "exit1"}

\* C7 witness: the run has taken the error exit of pickDate.
C7_Witness ==
    /\ pc = "exit1" /\ env
    /\ Len(args) = 3 /\ args[2] \in SummaryTypes /\ args[1] \notin Keywords
    /\ ContainsSlash(wantedRepo)

\* C8: an unparsable event or one of unrecognised kind leaves the ledger
\* unchanged and does not abort the run, and the report handed to the final
\* timecard summarization lists every work item of the ledger.
C8_FailuresAbsorbed ==
    /\ [][(Len(fed') = Len(fed) + 1 /\ Ignored(Last(fed').e)) =>
             (work' = work /\ pc' # "panic")]_vars
    /\ [](pc = "done" =>
             /\ \A i \in DOMAIN work.issues : \E k \in 1 .. Len(report) :
                    report[k].kind = "Issue" /\ report[k].eventId = work.issues[i].eventId
             /\ \A i \in DOMAIN work.pulls : \E k \in 1 .. Len(report) :
                    report[k].kind = "PR" /\ report[k].eventId = work.pulls[i].eventId
             /\ timecard = <<[role |-> timecardRole(args[2]), report |-> report]>>)

\* C9: the verb stored for a pull-request event is "merged" for action
\* "closed" with the merged flag, "closed" for "closed" without it, and the
\* event's action string for every other action.
C9_PullRequestVerb ==
    (fed # <<>> /\ Last(fed).e.type = "PullRequestEvent" /\ pc # "panic") =>
        LET e == Last(fed).e
            stored == Last(getAction(work, e.obj.number)).action
        IN  /\ (e.action = "closed" /\ e.obj.merged) => stored = "merged"
            /\ (e.action = "closed" /\ ~e.obj.merged) => stored = "closed"
            /\ e.action # "closed" => stored = e.action

\* C9 witness: pull-request events of all three cases have been handled, a
\* merged one last.
C9_Witness ==
    /\ pc = "ledger" /\ Len(fed) = 3
    /\ \A k \in 1 .. 3 : fed[k].e.type = "PullRequestEvent" /\ ~fed[k].e.parseErr
    /\ fed[1].e.action = "opened"
    /\ fed[2].e.action = "closed" /\ ~fed[2].e.obj.merged
    /\ fed[3].e.action = "closed" /\ fed[3].e.obj.merged
    /\ Last(work.actions[fed[3].e.obj.number]).action = "merged"

\* C10: the request built for an entry of issues or of pulls carries that
\* entry's own id, url, title, author flag and description, then the count
\* and the list of actions[id].
C10_RequestOfOwnEntry ==
    lastReq # <<>> =>
        LET entry == lastReq[1].entry
            instr == lastReq[1].instr
        IN  /\ instr.eventId = entry.eventId
            /\ instr.url = entry.url
            /\ instr.title = entry.title
            /\ instr.author = entry.author
            /\ instr.description = entry.description
            /\ instr.count = Len(getAction(work, entry.eventId))
            /\ instr.actions = getAction(work, entry.eventId)

====
